---- MODULE Spec2Model ----
(***************************************************************************)
(* Best-fit memory manager of src/main.py: BestFitMemoryManager (allocate, *)
(* deallocate, merge_free_blocks) and the two handlers of MemoryManagerGUI *)
(* that drive it (allocate_memory, deallocate_memory).                     *)
(*                                                                         *)
(* memory_blocks is a Python list; here it is a sequence, so the Python    *)
(* index i is position i + 1 of the sequence.  Indices kept in variables   *)
(* and returned by operators are the Python (0-based) ones.                *)
(***************************************************************************)
EXTENDS Integers, Sequences, FiniteSets, TLC

VARIABLES
    memory_blocks,   \* BestFitMemoryManager.memory_blocks
    error_display,   \* text of MemoryManagerGUI.error_display
    total_memory,    \* the argument BestFitMemoryManager was constructed with
    pre_blocks,      \* memory_blocks as it was when the last step started
    handler,         \* the GUI handler of the last step ("none": direct call)
    parsed,          \* what int(entry.get()) gave in the last step
    last_call,       \* the manager method the last step invoked, or "none"
    request,         \* the request_size of that invocation
    block_index,     \* the value that invocation returned
    merge_pc,        \* where a merge_free_blocks run on its own stands
    merge_i,         \* the local i of that run
    merge_iterations, \* the iterations of its while loop so far
    animations,      \* the running animate_* calls, the innermost last
    highlighted,     \* index the last drawn frame gave the transition colour
    dispatched_in    \* running animate_* calls when the last handler started

\* the variables of a merge_free_blocks run observed step by step
mergeVars == <<merge_pc, merge_i, merge_iterations>>

\* the variables of the animations
animVars == <<animations, highlighted, dispatched_in>>

vars == <<memory_blocks, error_display, total_memory, pre_blocks, handler,
          parsed, last_call, request, block_index, merge_pc, merge_i,
          merge_iterations, animations, highlighted, dispatched_in>>

----------------------------------------------------------------------------
(* Bounds *)

\* Capacity given to the constructor (1000 in MemoryManagerGUI.__init__).
MaxTotalMemory == 7

\* Digits 0..MaxDigit may be typed into an entry field.
MaxDigit == 2

\* Number of characters typed into an entry field.
MaxEntryLen == 2

\* allocate_memory is not taken once the list holds this many blocks
\* (requests <= 0 could grow the list without limit).
MaxBlocks == 3

\* Longest list handed to merge_free_blocks on its own.
MaxMergeLen == 5

\* Largest block size in such a list.
MaxMergeSize == 2

\* Frames of an animation: range(21) of lines 191 and 246, scaled down;
\* the last frame is the one that highlights nothing (i < 20).
AnimationFrames == 3

\* Most animate_* calls running inside one another.
MaxNesting == 2

\* Largest size passed in a direct call: one more than any capacity.
MaxRequest == MaxTotalMemory + 1

----------------------------------------------------------------------------
(* Python values *)

\* None, as returned by allocate / deallocate; real indices are >= 0.
None == -1

\* MemoryBlock.__init__
MemoryBlock(size) == [size |-> size, allocated |-> FALSE]

\* self.memory_blocks[i]
BlockAt(blocks, i) == blocks[i + 1]

\* list.insert(i, x) for 0 <= i <= len
ListInsert(blocks, i, x) ==
    SubSeq(blocks, 1, i) \o <<x>> \o SubSeq(blocks, i + 1, Len(blocks))

\* list.pop(i) for 0 <= i < len (the resulting list)
ListPop(blocks, i) ==
    SubSeq(blocks, 1, i) \o SubSeq(blocks, i + 2, Len(blocks))

RECURSIVE SumSizes(_)
\* sum(b.size for b in blocks)
SumSizes(blocks) ==
    IF blocks = <<>> THEN 0
    ELSE Head(blocks).size + SumSizes(Tail(blocks))

----------------------------------------------------------------------------
(* BestFitMemoryManager.allocate *)

\* IsCandidate with > for >=: a block of exactly the requested size is
\* passed over
IsCandidate_Strict(block, request_size) ==
    ~block.allocated /\ block.size > request_size

\* line 42: the block is free and large enough
IsCandidate(block, request_size) ==
    ~block.allocated /\ block.size >= request_size

\* IsCloser with > for <: the loosest fit wins
IsCloser_Worst(size_difference, best_fit_index, min_size_difference) ==
    best_fit_index = None \/ size_difference > min_size_difference

\* IsCloser with <= for <: a later block of equal difference wins
IsCloser_OrEqual(size_difference, best_fit_index, min_size_difference) ==
    best_fit_index = None \/ size_difference <= min_size_difference

\* line 46: size_difference < min_size_difference.  min_size_difference is
\* float('inf') exactly as long as best_fit_index is None, and every
\* integer is below float('inf').
IsCloser(size_difference, best_fit_index, min_size_difference) ==
    best_fit_index = None \/ size_difference < min_size_difference

RECURSIVE BestFitScan(_, _, _, _, _)
\* lines 40-48: the loop, from Python index i on, with the loop's two
\* locals; the value is best_fit_index when the loop ends.
BestFitScan(blocks, request_size, i, best_fit_index, min_size_difference) ==
    IF i >= Len(blocks) THEN best_fit_index
    ELSE LET block == BlockAt(blocks, i)
             size_difference == block.size - request_size
         IN  IF /\ IsCandidate(block, request_size)
                /\ IsCloser(size_difference, best_fit_index,
                            min_size_difference)
             THEN BestFitScan(blocks, request_size, i + 1, i, size_difference)
             ELSE BestFitScan(blocks, request_size, i + 1, best_fit_index,
                              min_size_difference)

\* lines 35-48: best_fit_index after the scan (min_size_difference starts
\* at float('inf'); the 0 is never read while best_fit_index is None)
BestFitIndex(blocks, request_size) ==
    BestFitScan(blocks, request_size, 0, None, 0)

\* NeedsSplit with >= for >: an exact fit is split as well
NeedsSplit_OrEqual(best_fit_block, request_size) ==
    best_fit_block.size >= request_size

\* line 55: the chosen block is split
NeedsSplit(best_fit_block, request_size) ==
    best_fit_block.size > request_size

\* RemainingSize without the subtraction
RemainingSize_Whole(best_fit_block, request_size) ==
    best_fit_block.size

\* line 56
RemainingSize(best_fit_block, request_size) ==
    best_fit_block.size - request_size

\* line 58: the remainder goes right after the chosen block
SplitInsert(blocks, best_fit_index, remaining_size) ==
    ListInsert(blocks, best_fit_index + 1, MemoryBlock(remaining_size))

\* MarkAllocated without line 61: the flag is set, the size is kept
MarkAllocated_NoResize(blocks, best_fit_index, request_size) ==
    [blocks EXCEPT ![best_fit_index + 1].allocated = TRUE]

\* lines 61-62: the chosen block is resized and marked
MarkAllocated(blocks, best_fit_index, request_size) ==
    [blocks EXCEPT ![best_fit_index + 1] =
        [size |-> request_size, allocated |-> TRUE]]

\* lines 51-65: memory_blocks after allocate(request_size)
AllocateBlocks(blocks, request_size) ==
    LET best_fit_index == BestFitIndex(blocks, request_size)
    IN  IF best_fit_index # None
        THEN LET best_fit_block == BlockAt(blocks, best_fit_index)
                 split ==
                     IF NeedsSplit(best_fit_block, request_size)
                     THEN SplitInsert(blocks, best_fit_index,
                              RemainingSize(best_fit_block, request_size))
                     ELSE blocks
             IN  MarkAllocated(split, best_fit_index, request_size)
        ELSE blocks

\* AllocateResult that returns the index after the chosen block
AllocateResult_Next(blocks, request_size) ==
    IF BestFitIndex(blocks, request_size) = None THEN None
    ELSE BestFitIndex(blocks, request_size) + 1

\* lines 63, 65: the value allocate(request_size) returns
AllocateResult(blocks, request_size) ==
    BestFitIndex(blocks, request_size)

----------------------------------------------------------------------------
(* BestFitMemoryManager.merge_free_blocks and deallocate *)

\* BothFree with "or" for "and"
BothFree_Either(current_block, next_block) ==
    ~current_block.allocated \/ ~next_block.allocated

\* line 96
BothFree(current_block, next_block) ==
    ~current_block.allocated /\ ~next_block.allocated

\* MergePair without line 97: next_block is removed, its size is lost
MergePair_NoAdd(blocks, i) == ListPop(blocks, i + 1)

\* lines 97-99: next_block is absorbed by current_block and removed
MergePair(blocks, i) ==
    ListPop([blocks EXCEPT ![i + 1].size =
                 BlockAt(blocks, i).size + BlockAt(blocks, i + 1).size],
            i + 1)

\* NextMergeIndex that never advances
NextMergeIndex_Stay(i, merged) == i

\* NextMergeIndex that advances after a merge too
NextMergeIndex_Always(i, merged) == i + 1

\* lines 99-101: the index after one iteration
NextMergeIndex(i, merged) == IF merged THEN i ELSE i + 1

RECURSIVE MergeLoop(_, _)
\* lines 91-101: the while loop from index i on; the value is the list
\* when the loop ends
MergeLoop(blocks, i) ==
    IF i < Len(blocks) - 1
    THEN IF BothFree(BlockAt(blocks, i), BlockAt(blocks, i + 1))
         THEN MergeLoop(MergePair(blocks, i), NextMergeIndex(i, TRUE))
         ELSE MergeLoop(blocks, NextMergeIndex(i, FALSE))
    ELSE blocks

\* MergeFreeBlocks whose loop starts at index 1
MergeFreeBlocks_FromOne(blocks) == MergeLoop(blocks, 1)

\* lines 86-101
MergeFreeBlocks(blocks) == MergeLoop(blocks, 0)

\* IsMatch without the test of the flag
IsMatch_AnyFlag(block, request_size) ==
    block.size = request_size

\* line 79
IsMatch(block, request_size) ==
    block.size = request_size /\ block.allocated

RECURSIVE DeallocScan_Last(_, _, _)
\* DeallocScan that keeps scanning after a match: the last match wins
DeallocScan_Last(blocks, request_size, i) ==
    IF i >= Len(blocks) THEN None
    ELSE LET later == DeallocScan_Last(blocks, request_size, i + 1)
         IN  IF later # None THEN later
             ELSE IF IsMatch(BlockAt(blocks, i), request_size) THEN i
                  ELSE None

RECURSIVE DeallocScan(_, _, _)
\* lines 78-84: the loop from index i on; the value is the index the loop
\* returns at its first match, None when it runs to the end
DeallocScan(blocks, request_size, i) ==
    IF i >= Len(blocks) THEN None
    ELSE IF IsMatch(BlockAt(blocks, i), request_size) THEN i
         ELSE DeallocScan(blocks, request_size, i + 1)

\* DeallocateResult that returns the index the freed block has once the
\* merge pass has run
DeallocateResult_AfterMerge(blocks, request_size) ==
    LET i == DeallocScan(blocks, request_size, 0)
    IN  IF i > 0 /\ ~BlockAt(blocks, i - 1).allocated THEN i - 1 ELSE i

\* lines 83-84: the value deallocate(request_size) returns
DeallocateResult(blocks, request_size) ==
    DeallocScan(blocks, request_size, 0)

\* FreeAndMerge without line 82: the merge pass is not run
FreeAndMerge_NoMerge(blocks, i) ==
    [blocks EXCEPT ![i + 1].allocated = FALSE]

\* lines 80-82: what a match does to the list
FreeAndMerge(blocks, i) ==
    MergeFreeBlocks([blocks EXCEPT ![i + 1].allocated = FALSE])

\* lines 78-84: memory_blocks after deallocate(request_size)
DeallocateBlocks(blocks, request_size) ==
    LET i == DeallocScan(blocks, request_size, 0)
    IN  IF i # None THEN FreeAndMerge(blocks, i) ELSE blocks

----------------------------------------------------------------------------
(* What the entry fields hold, and int() of it (lines 312, 335) *)

DigitChars == <<"0", "1", "2", "3", "4", "5", "6", "7", "8", "9">>

\* the characters that can be typed: a sign, a letter, the digits
EntryChars == {"-", "x"} \cup {DigitChars[d + 1] : d \in 0..MaxDigit}

\* the texts an entry field can hold (the empty text included)
EntryTexts ==
    UNION {[1..n -> EntryChars] : n \in 0..MaxEntryLen}

IsDigit(c) == \E d \in 0..9 : DigitChars[d + 1] = c

DigitValue(c) == CHOOSE d \in 0..9 : DigitChars[d + 1] = c

RECURSIVE DigitsValue(_)
\* the number a non-empty run of decimal digits denotes
DigitsValue(digits) ==
    IF Len(digits) = 0 THEN 0
    ELSE 10 * DigitsValue(SubSeq(digits, 1, Len(digits) - 1))
         + DigitValue(digits[Len(digits)])

\* int(text): an optional minus sign and at least one digit give an
\* integer, everything else raises ValueError
ParseInt(text) ==
    LET negative == Len(text) > 0 /\ text[1] = "-"
        digits == IF negative THEN Tail(text) ELSE text
        wellFormed == /\ Len(digits) > 0
                      /\ \A k \in 1..Len(digits) : IsDigit(digits[k])
    IN  IF wellFormed
        THEN [error |-> FALSE,
              value |-> IF negative THEN 0 - DigitsValue(digits)
                        ELSE DigitsValue(digits)]
        ELSE [error |-> TRUE, value |-> 0]

\* parsed while no handler has run
NotParsed == [error |-> TRUE, value |-> 0]

----------------------------------------------------------------------------
(* Messages of error_display *)

NoMessage == <<"">>
NoFitMessage(size) ==
    <<"No suitable block found for allocation of size", size>>
NoMatchMessage(size) ==
    <<"No allocated block of size found to deallocate.", size>>
InvalidAllocMessage == <<"Invalid size entered for allocation.">>
InvalidDeallocMessage == <<"Invalid size entered for deallocation.">>

----------------------------------------------------------------------------
(* State machine *)

\* BestFitMemoryManager.__init__ (line 23) and the fresh widgets
Init ==
    /\ total_memory \in 1..MaxTotalMemory
    /\ memory_blocks = <<MemoryBlock(total_memory)>>
    /\ error_display = NoMessage
    /\ pre_blocks = memory_blocks
    /\ handler = "none"
    /\ parsed = NotParsed
    /\ last_call = "none"
    /\ request = 0
    /\ block_index = None
    /\ merge_pc = "idle"
    /\ merge_i = 0
    /\ merge_iterations = 0
    /\ animations = <<>>
    /\ highlighted = None
    /\ dispatched_in = 0

\* the call self.memory_manager.allocate(request_size)
allocate(request_size) ==
    /\ memory_blocks' = AllocateBlocks(memory_blocks, request_size)
    /\ block_index' = AllocateResult(memory_blocks, request_size)
    /\ pre_blocks' = memory_blocks
    /\ last_call' = "allocate"
    /\ request' = request_size
    /\ UNCHANGED <<total_memory, mergeVars>>

\* the call self.memory_manager.deallocate(request_size)
deallocate(request_size) ==
    /\ memory_blocks' = DeallocateBlocks(memory_blocks, request_size)
    /\ block_index' = DeallocateResult(memory_blocks, request_size)
    /\ pre_blocks' = memory_blocks
    /\ last_call' = "deallocate"
    /\ request' = request_size
    /\ UNCHANGED <<total_memory, mergeVars>>

\* a handler whose int() raised ValueError: no call is made
NoCall ==
    /\ pre_blocks' = memory_blocks
    /\ last_call' = "none"
    /\ request' = 0
    /\ block_index' = None
    /\ UNCHANGED <<memory_blocks, total_memory, mergeVars>>

\* MemoryManagerGUI.allocate_memory (lines 306-327) with the entry text
AllocateMemoryWith(text) ==
    LET size == ParseInt(text)
    IN  /\ handler' = "allocate_memory"
        /\ parsed' = size
        /\ IF size.error
           THEN /\ NoCall
                /\ error_display' = InvalidAllocMessage
           ELSE /\ allocate(size.value)
                /\ error_display' = IF block_index' # None THEN NoMessage
                                    ELSE NoFitMessage(size.value)

\* MemoryManagerGUI.deallocate_memory (lines 329-350) with the entry text
DeallocateMemoryWith(text) ==
    LET size == ParseInt(text)
    IN  /\ handler' = "deallocate_memory"
        /\ parsed' = size
        /\ IF size.error
           THEN /\ NoCall
                /\ error_display' = InvalidDeallocMessage
           ELSE /\ deallocate(size.value)
                /\ error_display' = IF block_index' # None THEN NoMessage
                                    ELSE NoMatchMessage(size.value)

\* the Allocate button, its animation run to the end with no further
\* event arriving meanwhile
allocate_memory ==
    /\ Len(memory_blocks) < MaxBlocks
    /\ \E text \in EntryTexts : AllocateMemoryWith(text)
    /\ UNCHANGED animVars

\* the Deallocate button, its animation run to the end with no further
\* event arriving meanwhile
deallocate_memory ==
    /\ \E text \in EntryTexts : DeallocateMemoryWith(text)
    /\ UNCHANGED animVars

Next == allocate_memory \/ deallocate_memory

\* the program: the manager driven by the two buttons
Spec == Init /\ [][Next]_vars

\* allocate(s) called on the manager with a positive size
AllocateCall ==
    /\ \E s \in 1..MaxRequest : allocate(s)
    /\ handler' = "none"
    /\ parsed' = NotParsed
    /\ UNCHANGED <<error_display, animVars>>

\* deallocate(s) called on the manager with a positive size
DeallocateCall ==
    /\ \E s \in 1..MaxRequest : deallocate(s)
    /\ handler' = "none"
    /\ parsed' = NotParsed
    /\ UNCHANGED <<error_display, animVars>>

NextManager == AllocateCall \/ DeallocateCall

\* the manager alone, under the precondition request_size > 0
SpecManager == Init /\ [][NextManager]_vars

----------------------------------------------------------------------------
(* The handlers with their animations, one frame per step *)

\* the innermost running animate_* call
TopAnimation == animations[Len(animations)]

\* a handler can start from mainloop (line 391), or from the root.update()
\* of a frame already drawn (lines 228, 283)
CanDispatch ==
    IF animations = <<>> THEN TRUE
    ELSE Len(animations) < MaxNesting /\ TopAnimation.i >= 1

\* lines 321, 344: animate_* is entered with the index just obtained
StartAnimation(kind) ==
    animations' =
        IF block_index' # None
        THEN Append(animations,
                    [kind |-> kind, block_index |-> block_index', i |-> 0])
        ELSE animations

\* lines 207-213, 262-268: the index j that gets intermediate_color when
\* frame i is drawn over the list as it is then
HighlightedIndex(blocks, index, i) ==
    IF i < AnimationFrames - 1 /\ index \in 0..(Len(blocks) - 1)
    THEN index
    ELSE None

\* what neither a frame nor a return touches
AnimationFrame ==
    UNCHANGED <<memory_blocks, error_display, total_memory, pre_blocks,
                handler, parsed, last_call, request, block_index,
                mergeVars, dispatched_in>>

\* the Allocate button is dispatched (lines 306-321)
AllocateButton ==
    /\ CanDispatch
    /\ Len(memory_blocks) < MaxBlocks
    /\ \E text \in EntryTexts : AllocateMemoryWith(text)
    /\ StartAnimation("allocation")
    /\ dispatched_in' = Len(animations)
    /\ UNCHANGED highlighted

\* the Deallocate button is dispatched (lines 329-344)
DeallocateButton ==
    /\ CanDispatch
    /\ \E text \in EntryTexts : DeallocateMemoryWith(text)
    /\ StartAnimation("deallocation")
    /\ dispatched_in' = Len(animations)
    /\ UNCHANGED highlighted

\* lines 191-229, 246-284: the innermost animation draws its next frame
\* and enters root.update()
DrawFrame ==
    /\ animations # <<>>
    /\ TopAnimation.i < AnimationFrames
    /\ highlighted' = HighlightedIndex(memory_blocks,
                           TopAnimation.block_index, TopAnimation.i)
    /\ animations' = [animations EXCEPT ![Len(animations)].i = @ + 1]
    /\ AnimationFrame

\* the loop is over: animate_* returns (animate_deallocation after
\* update_memory_display, line 287, which highlights nothing)
AnimationReturn ==
    /\ animations # <<>>
    /\ TopAnimation.i = AnimationFrames
    /\ animations' = SubSeq(animations, 1, Len(animations) - 1)
    /\ highlighted' = None
    /\ AnimationFrame

NextAnimation ==
    AllocateButton \/ DeallocateButton \/ DrawFrame \/ AnimationReturn

\* the program with the events that root.update() dispatches during an
\* animation
SpecAnimation == Init /\ [][NextAnimation]_vars

----------------------------------------------------------------------------
(* merge_free_blocks on its own, one loop iteration per step *)

\* the blocks a list can be made of
MergeBlocks ==
    [size : 1..MaxMergeSize, allocated : BOOLEAN]

\* the lists handed to merge_free_blocks: any flags, reachable or not
MergeInputs ==
    UNION {[1..n -> MergeBlocks] : n \in 1..MaxMergeLen}

\* merge_free_blocks has been called on a list and stands at line 91
\* with i = 0 (line 90)
InitMerge ==
    /\ memory_blocks \in MergeInputs
    /\ total_memory = SumSizes(memory_blocks)
    /\ pre_blocks = memory_blocks
    /\ error_display = NoMessage
    /\ handler = "none"
    /\ parsed = NotParsed
    /\ last_call = "none"
    /\ request = 0
    /\ block_index = None
    /\ merge_pc = "loop"
    /\ merge_i = 0
    /\ merge_iterations = 0
    /\ animations = <<>>
    /\ highlighted = None
    /\ dispatched_in = 0

\* line 91: the loop condition
MergeLoopCondition == merge_i < Len(memory_blocks) - 1

\* what no step of the loop touches
MergeFrame ==
    UNCHANGED <<error_display, total_memory, pre_blocks, handler, parsed,
                last_call, request, block_index, animVars>>

\* lines 91-99: an iteration that merges
MergeIterationMerge ==
    /\ merge_pc = "loop"
    /\ merge_iterations <= Len(pre_blocks)
    /\ MergeLoopCondition
    /\ BothFree(BlockAt(memory_blocks, merge_i),
                BlockAt(memory_blocks, merge_i + 1))
    /\ memory_blocks' = MergePair(memory_blocks, merge_i)
    /\ merge_i' = NextMergeIndex(merge_i, TRUE)
    /\ merge_iterations' = merge_iterations + 1
    /\ UNCHANGED merge_pc
    /\ MergeFrame

\* lines 91-96, 100-101: an iteration that advances
MergeIterationAdvance ==
    /\ merge_pc = "loop"
    /\ merge_iterations <= Len(pre_blocks)
    /\ MergeLoopCondition
    /\ ~BothFree(BlockAt(memory_blocks, merge_i),
                 BlockAt(memory_blocks, merge_i + 1))
    /\ merge_i' = NextMergeIndex(merge_i, FALSE)
    /\ merge_iterations' = merge_iterations + 1
    /\ UNCHANGED <<memory_blocks, merge_pc>>
    /\ MergeFrame

\* line 91: the condition is false, merge_free_blocks returns
MergeReturn ==
    /\ merge_pc = "loop"
    /\ ~MergeLoopCondition
    /\ merge_pc' = "done"
    /\ UNCHANGED <<memory_blocks, merge_i, merge_iterations>>
    /\ MergeFrame

NextMerge == MergeIterationMerge \/ MergeIterationAdvance \/ MergeReturn

\* one call of merge_free_blocks on any list; the interpreter keeps
\* executing the loop, hence the fairness
SpecMerge == InitMerge /\ [][NextMerge]_vars /\ WF_vars(NextMerge)

----------------------------------------------------------------------------
(* Vocabulary of the properties (positions are 1-based here) *)

AllocateSucceeded == last_call = "allocate" /\ block_index # None
AllocateFailed == last_call = "allocate" /\ block_index = None
DeallocateSucceeded == last_call = "deallocate" /\ block_index # None
DeallocateFailed == last_call = "deallocate" /\ block_index = None

\* positions of the free blocks of the list that can hold request_size
Candidates(blocks, request_size) ==
    {j \in 1..Len(blocks) :
        ~blocks[j].allocated /\ blocks[j].size >= request_size}

\* positions of the allocated blocks of exactly request_size
Matches(blocks, request_size) ==
    {j \in 1..Len(blocks) :
        blocks[j].allocated /\ blocks[j].size = request_size}

\* the position whose flag the last allocate turned from free to allocated,
\* everything before it being untouched (0 when there is none)
AllocatedPositions ==
    {k \in 1..Len(pre_blocks) :
        /\ k <= Len(memory_blocks)
        /\ ~pre_blocks[k].allocated
        /\ memory_blocks[k].allocated
        /\ \A j \in 1..(k - 1) : memory_blocks[j] = pre_blocks[j]}

\* the least element of a non-empty set of positions
MinOf(S) == CHOOSE k \in S : \A j \in S : k <= j

\* start offset of the block at position k: the sizes before it, added up
Offset(blocks, k) == SumSizes(SubSeq(blocks, 1, k - 1))

\* the allocated extents of the list, as <<start offset, size>>
AllocatedExtents(blocks) ==
    {<<Offset(blocks, k), blocks[k].size>> :
        k \in {j \in 1..Len(blocks) : blocks[j].allocated}}

\* the allocated blocks of the list, in address order
AllocatedSeq(blocks) == SelectSeq(blocks, LAMBDA b : b.allocated)

\* a sequence without its n-th element
RemoveAt(seq, n) == SubSeq(seq, 1, n - 1) \o SubSeq(seq, n + 1, Len(seq))

\* the free neighbours (0, 1 or 2) of the block at position k
FreeNeighbours(blocks, k) ==
    Cardinality({j \in {k - 1, k + 1} :
        j \in 1..Len(blocks) /\ ~blocks[j].allocated})

NoAdjacentFree(blocks) ==
    \A j \in 1..(Len(blocks) - 1) :
        ~(~blocks[j].allocated /\ ~blocks[j + 1].allocated)

----------------------------------------------------------------------------
(* Properties *)

\* C1: after any sequence of allocate(s) / deallocate(s) calls with s > 0,
\* successful or failed, the block sizes add up to the capacity the
\* manager was constructed with.
C1_CapacityConservation == SumSizes(memory_blocks) = total_memory

\* C1 witness: a deallocate that merged blocks, leaving several blocks.
C1_Witness ==
    /\ DeallocateSucceeded
    /\ Len(memory_blocks) < Len(pre_blocks)
    /\ Len(memory_blocks) >= 3

\* C2: in every state reachable by calls with s > 0, after allocate as
\* well as after deallocate, no two neighbouring blocks are both free.
C2_NoAdjacentFree == NoAdjacentFree(memory_blocks)

\* C2 witness: a deallocate freed a block lying between two free blocks.
C2_Witness ==
    /\ DeallocateSucceeded
    /\ Len(memory_blocks) = Len(pre_blocks) - 2
    /\ Len(memory_blocks) >= 2

\* C3: a successful allocate(r) allocates a block that was free and of
\* size >= r before the call, and no free block of size >= r of the
\* pre-call list was strictly smaller.
C3_BestFit ==
    AllocateSucceeded =>
        /\ Cardinality(AllocatedPositions) = 1
        /\ \A k \in AllocatedPositions :
              /\ k \in Candidates(pre_blocks, request)
              /\ \A j \in Candidates(pre_blocks, request) :
                    pre_blocks[j].size >= pre_blocks[k].size

\* C3 witness: the allocated block was preceded by a larger candidate and
\* followed by another larger candidate.
C3_Witness ==
    /\ AllocateSucceeded
    /\ \E k \in AllocatedPositions :
          /\ \E j \in Candidates(pre_blocks, request) :
                j < k /\ pre_blocks[j].size > pre_blocks[k].size
          /\ \E j \in Candidates(pre_blocks, request) :
                j > k /\ pre_blocks[j].size > pre_blocks[k].size

\* C4: among the free blocks of the smallest sufficient size, a successful
\* allocate(r) allocates the one with the lowest index.
C4_TieBreak ==
    AllocateSucceeded =>
        \A k \in AllocatedPositions :
            \A j \in Candidates(pre_blocks, request) :
                pre_blocks[j].size = pre_blocks[k].size => k <= j

\* C4 witness: two candidates of the smallest sufficient size existed.
C4_Witness ==
    /\ AllocateSucceeded
    /\ \E k \in AllocatedPositions :
          /\ \A j \in Candidates(pre_blocks, request) :
                pre_blocks[j].size >= pre_blocks[k].size
          /\ \E j \in Candidates(pre_blocks, request) :
                j > k /\ pre_blocks[j].size = pre_blocks[k].size

\* C5: allocate(r) returns None exactly when no free block of the list
\* has size >= r, and a failed allocate leaves the list as it was.
C5_AllocateFailure ==
    last_call = "allocate" =>
        /\ (block_index = None) <=> (Candidates(pre_blocks, request) = {})
        /\ (block_index = None) => (memory_blocks = pre_blocks)

\* C5 witness: allocate failed although the list held free blocks, whose
\* sizes added up to at least the request.
C5_Witness ==
    /\ AllocateFailed
    /\ Cardinality(Candidates(pre_blocks, 1)) >= 2
    /\ SumSizes(SelectSeq(pre_blocks, LAMBDA b : ~b.allocated)) >= request

\* C6: deallocate(r) returns None exactly when no block is both allocated
\* and of size r, and a failed deallocate leaves the list as it was, also
\* when a free block of size r exists.
C6_NoMatchDeallocation ==
    last_call = "deallocate" =>
        /\ (block_index = None) <=> (Matches(pre_blocks, request) = {})
        /\ (block_index = None) => (memory_blocks = pre_blocks)

\* C6 witness: deallocate(r) failed while a free block of size r existed
\* next to allocated blocks of other sizes.
C6_Witness ==
    /\ DeallocateFailed
    /\ \E j \in 1..Len(pre_blocks) :
          ~pre_blocks[j].allocated /\ pre_blocks[j].size = request
    /\ \E j \in 1..Len(pre_blocks) : pre_blocks[j].allocated

\* C7: a size <= 0 typed into the allocation or the deallocation field is
\* rejected by the handler: allocate / deallocate are not called with
\* request_size <= 0 and the list is unchanged.
C7_NonPositiveRejected ==
    /\ (handler # "none" /\ ~parsed.error /\ parsed.value <= 0) =>
          (last_call = "none" /\ memory_blocks = pre_blocks)
    /\ (last_call # "none") => (request > 0)

\* C8: every block reachable through the two handlers has size > 0.
C8_PositiveSizes ==
    \A j \in 1..Len(memory_blocks) : memory_blocks[j].size > 0

\* C9: when allocate(r) chooses a free block at index k of size S > r, the
\* list grows by one block, index k holds (r, allocated), index k + 1 a
\* new free block of S - r, the blocks before k stay and the blocks after
\* k move up by one.
C9_Split ==
    (AllocateSucceeded /\ BlockAt(pre_blocks, block_index).size > request) =>
        LET k == block_index + 1
            S == pre_blocks[k].size
        IN  /\ ~pre_blocks[k].allocated
            /\ Len(memory_blocks) = Len(pre_blocks) + 1
            /\ memory_blocks[k] = [size |-> request, allocated |-> TRUE]
            /\ memory_blocks[k + 1] =
                  [size |-> S - request, allocated |-> FALSE]
            /\ \A j \in 1..(k - 1) : memory_blocks[j] = pre_blocks[j]
            /\ \A j \in (k + 1)..Len(pre_blocks) :
                  memory_blocks[j + 1] = pre_blocks[j]

\* C9 witness: a split in the middle of the list.
C9_Witness ==
    /\ AllocateSucceeded
    /\ BlockAt(pre_blocks, block_index).size > request
    /\ block_index > 0
    /\ block_index + 1 < Len(pre_blocks)

\* C10: when allocate(r) chooses a free block of size exactly r, the list
\* keeps its length, the block becomes allocated with size r and every
\* other block is unchanged.
C10_ExactFit ==
    (AllocateSucceeded /\ BlockAt(pre_blocks, block_index).size = request) =>
        LET k == block_index + 1
        IN  /\ ~pre_blocks[k].allocated
            /\ Len(memory_blocks) = Len(pre_blocks)
            /\ memory_blocks[k] = [size |-> request, allocated |-> TRUE]
            /\ \A j \in 1..Len(pre_blocks) :
                  j # k => memory_blocks[j] = pre_blocks[j]

\* C10 witness: an exact fit in the middle of the list, a larger free
\* block being available as well.
C10_Witness ==
    /\ AllocateSucceeded
    /\ BlockAt(pre_blocks, block_index).size = request
    /\ block_index > 0
    /\ block_index + 1 < Len(pre_blocks)
    /\ \E j \in Candidates(pre_blocks, request) :
          pre_blocks[j].size > request

\* C11: a successful deallocate(r) frees exactly one allocated block, the
\* lowest-index allocated block of size r of the pre-call list; all other
\* allocated blocks, further blocks of size r included, stay allocated
\* with their size.
C11_DeallocationTarget ==
    DeallocateSucceeded =>
        LET k == MinOf(Matches(pre_blocks, request))
            n == Len(AllocatedSeq(SubSeq(pre_blocks, 1, k)))
        IN  /\ Matches(pre_blocks, request) # {}
            /\ AllocatedSeq(memory_blocks) =
                  RemoveAt(AllocatedSeq(pre_blocks), n)
            /\ \E f \in 1..Len(memory_blocks) :
                  /\ ~memory_blocks[f].allocated
                  /\ Offset(memory_blocks, f) <= Offset(pre_blocks, k)
                  /\ Offset(pre_blocks, k) + request <=
                        Offset(memory_blocks, f) + memory_blocks[f].size

\* C11 witness: two allocated blocks of size r existed, behind another
\* allocated block.
C11_Witness ==
    /\ DeallocateSucceeded
    /\ Cardinality(Matches(pre_blocks, request)) >= 2
    /\ \E j \in 1..Len(pre_blocks) :
          /\ pre_blocks[j].allocated
          /\ j < MinOf(Matches(pre_blocks, request))

\* C12: when allocate(r) succeeds and returns k, k is a valid index of the
\* list as it is after the call, and the block there is allocated and of
\* size r.
C12_AllocationHandle ==
    AllocateSucceeded =>
        /\ block_index \in 0..(Len(memory_blocks) - 1)
        /\ BlockAt(memory_blocks, block_index) =
              [size |-> request, allocated |-> TRUE]
        /\ ~BlockAt(pre_blocks, block_index).allocated

\* C12 witness: the returned index is neither the first nor the last.
C12_Witness ==
    /\ AllocateSucceeded
    /\ block_index >= 1
    /\ block_index + 2 <= Len(memory_blocks) - 1

\* C13: when deallocate(r) succeeds, it returns the smallest index i of
\* the pre-call list with memory_blocks[i] allocated and of size r.
C13_DeallocationResult ==
    DeallocateSucceeded =>
        /\ Matches(pre_blocks, request) # {}
        /\ block_index + 1 = MinOf(Matches(pre_blocks, request))

\* C13 witness: the freed block had a free predecessor, so that its index
\* after the merge differs from the one returned.
C13_Witness ==
    /\ DeallocateSucceeded
    /\ block_index >= 1
    /\ ~BlockAt(pre_blocks, block_index - 1).allocated

\* C14: a reachable list without allocated blocks is the single free
\* block of the total capacity.
C14_FullRelease ==
    (\A j \in 1..Len(memory_blocks) : ~memory_blocks[j].allocated) =>
        memory_blocks = <<MemoryBlock(total_memory)>>

\* C14 witness: the last allocated block was freed between two free
\* blocks.
C14_Witness ==
    /\ DeallocateSucceeded
    /\ \A j \in 1..Len(memory_blocks) : ~memory_blocks[j].allocated
    /\ Len(pre_blocks) >= 3

\* C17: every block that is allocated before an allocate or deallocate
\* call and is not the block the call frees keeps its size and its start
\* offset; the allocated extents change by the one extent added or
\* removed only.
C17_AddressStability ==
    LET before == AllocatedExtents(pre_blocks)
        after == AllocatedExtents(memory_blocks)
        extent == <<Offset(pre_blocks, block_index + 1), request>>
    IN  /\ AllocateSucceeded =>
              (extent \notin before /\ after = before \cup {extent})
        /\ DeallocateSucceeded =>
              (extent \in before /\ after = before \ {extent})
        /\ (AllocateFailed \/ DeallocateFailed) => after = before
        /\ Cardinality(after) = Len(AllocatedSeq(memory_blocks))

\* C17 witness: a block was freed between two free blocks while allocated
\* blocks lay before and behind them.
C17_Witness ==
    /\ DeallocateSucceeded
    /\ FreeNeighbours(pre_blocks, block_index + 1) = 2
    /\ \E j \in 1..Len(pre_blocks) :
          j < block_index + 1 /\ pre_blocks[j].allocated
    /\ \E j \in 1..Len(pre_blocks) :
          j > block_index + 1 /\ pre_blocks[j].allocated

\* C18: a successful allocate changes the number of blocks by 0 (exact
\* fit) or +1 (split); a successful deallocate lowers it by the number of
\* free neighbours of the freed block, that is by 0, 1 or 2; a failed call
\* leaves it.
C18_BlockCountSteps ==
    LET delta == Len(memory_blocks) - Len(pre_blocks)
    IN  /\ AllocateSucceeded =>
              /\ delta \in {0, 1}
              /\ (delta = 0) <=>
                    (BlockAt(pre_blocks, block_index).size = request)
        /\ DeallocateSucceeded =>
              /\ delta \in {0, -1, -2}
              /\ delta = 0 - FreeNeighbours(pre_blocks, block_index + 1)
        /\ (AllocateFailed \/ DeallocateFailed) => delta = 0

\* C18 witness: the freed block merged with its predecessor only, an
\* allocated block following it.
C18_Witness ==
    /\ DeallocateSucceeded
    /\ Len(memory_blocks) = Len(pre_blocks) - 1
    /\ block_index >= 1
    /\ ~BlockAt(pre_blocks, block_index - 1).allocated
    /\ block_index + 1 < Len(pre_blocks)

RECURSIVE CoalesceRuns(_)
\* the list with every maximal run of free blocks replaced by one free
\* block of the run's total size, built from the right end
CoalesceRuns(blocks) ==
    IF Len(blocks) <= 1 THEN blocks
    ELSE LET rest == CoalesceRuns(Tail(blocks))
             first == Head(blocks)
         IN  IF ~first.allocated /\ ~Head(rest).allocated
             THEN <<[size |-> first.size + Head(rest).size,
                     allocated |-> FALSE]>> \o Tail(rest)
             ELSE <<first>> \o rest

\* C15: for any list, one call of merge_free_blocks replaces every
\* maximal run of free blocks by one free block of the run's total size,
\* leaves the allocated blocks with their sizes and order, and ends with
\* no two adjacent free blocks.
C15_CoalescingPass ==
    merge_pc = "done" =>
        /\ memory_blocks = CoalesceRuns(pre_blocks)
        /\ memory_blocks = MergeFreeBlocks(pre_blocks)
        /\ NoAdjacentFree(memory_blocks)
        /\ AllocatedSeq(memory_blocks) = AllocatedSeq(pre_blocks)
        /\ AllocatedExtents(memory_blocks) = AllocatedExtents(pre_blocks)
        /\ SumSizes(memory_blocks) = SumSizes(pre_blocks)

\* C15 witness: the call ended on a list that had a run of three free
\* blocks, an allocated block and a further free block.
C15_Witness ==
    /\ merge_pc = "done"
    /\ \E j \in 1..(Len(pre_blocks) - 2) :
          \A k \in j..(j + 2) : ~pre_blocks[k].allocated
    /\ \E j \in 2..(Len(memory_blocks) - 1) : memory_blocks[j].allocated

\* C16: the loop of merge_free_blocks terminates; every iteration either
\* removes one block or advances i by one, so len(memory_blocks) - i
\* decreases by one, and there are at most (initial length - 1)
\* iterations.
C16_MergeTermination ==
    /\ <>(merge_pc = "done")
    /\ [][merge_iterations' # merge_iterations =>
            /\ \/ /\ Len(memory_blocks') = Len(memory_blocks) - 1
                  /\ merge_i' = merge_i
               \/ /\ memory_blocks' = memory_blocks
                  /\ merge_i' = merge_i + 1
            /\ Len(memory_blocks') - merge_i' <
                  Len(memory_blocks) - merge_i]_vars
    /\ [](merge_iterations <= Len(pre_blocks) - 1)

\* C16 witness: a call ended after merging as well as advancing, having
\* used all of its (initial length - 1) iterations.
C16_Witness ==
    /\ merge_pc = "done"
    /\ Len(pre_blocks) >= 4
    /\ merge_iterations = Len(pre_blocks) - 1
    /\ Len(memory_blocks) < Len(pre_blocks)
    /\ merge_i >= 1

\* every block of the list has a positive size (lists that the handlers
\* produce from sizes <= 0 are left aside by C19 and C20)
PositiveSizes(blocks) == \A j \in 1..Len(blocks) : blocks[j].size > 0

\* C19: after a successful deallocate(r) returning i, i is a valid index
\* of the list as merged and memory_blocks[i] is the free block holding
\* the extent just freed, so that the block animate_deallocation gives the
\* transition colour (here in its first frame, drawn before any further
\* event) is the block deallocated.
C19_DeallocationIndexAfterMerge ==
    (/\ handler = "deallocate_memory"
     /\ DeallocateSucceeded
     /\ PositiveSizes(pre_blocks)) =>
        LET shown == HighlightedIndex(memory_blocks, block_index, 0)
        IN  /\ block_index \in 0..(Len(memory_blocks) - 1)
            /\ shown = block_index
            /\ ~BlockAt(memory_blocks, shown).allocated
            /\ Offset(memory_blocks, shown + 1) <=
                  Offset(pre_blocks, block_index + 1)
            /\ Offset(pre_blocks, block_index + 1) + request <=
                  Offset(memory_blocks, shown + 1)
                      + BlockAt(memory_blocks, shown).size

\* C20: from the moment a handler has its block_index to the end of its
\* animation no other allocate or deallocate call runs, and memory_blocks
\* is not changed.
C20_NoReentrantMutation ==
    (/\ dispatched_in > 0
     /\ PositiveSizes(pre_blocks)
     /\ (parsed.error \/ parsed.value > 0)) =>
        /\ last_call = "none"
        /\ memory_blocks = pre_blocks

====
